---------------------------- MODULE Spec2Model ----------------------------
(***************************************************************************)
(* FoxNest client (installers/windows/foxnest/fox_client.py) and the two   *)
(* repository servers it talks to (server/server.py with database/crud.py, *)
(* and the bundled Flask server foxnest_server.py).                        *)
(*                                                                         *)
(* Data is modelled by what the code does to it:                           *)
(*   raw file bytes      a natural number (0 is the empty byte string)     *)
(*   zlib.compress(c)    [z |-> c]                                         *)
(*   base64.b64encode(x) [b64 |-> x]                                       *)
(*   sha256(c)[:16]      [alg |-> "sha256_16", of |-> c]                   *)
(*   sha1(c)             [alg |-> "sha1", of |-> c]                        *)
(* A JSON object / directory is a function whose DOMAIN is the key set.    *)
(***************************************************************************)
EXTENDS Integers, Sequences, FiniteSets, TLC

VARIABLES
    wt,        \* working tree: path -> [content, mtime] for every file present
    clock,     \* file-system clock, the source of st_mtime
    objects,   \* .fox/objects/<h[:2]>/<h[2:]>: hash -> compressed bytes
    packs,     \* .fox/packs: sequence of [payload, idx] (pack-<id>.pack / .idx)
    staging,   \* .fox/staging/<basename>: basename -> [path, hash]
    commits,   \* .fox/commits.json: the local commit log, oldest first
    head,      \* .fox/HEAD (None while the file does not exist)
    index,     \* .fox/index.json: path -> [hash, mtime, size]
    config,    \* .fox/config.json: [origin_url, repo_id]
    remote,    \* the server's state for this repository
    nextId,    \* commit ids are sha256(message + now)[:16]: fresh per commit
    put,       \* history: every (hash, content) handed to store_object_compressed
    last,      \* the last command: what it printed / returned / sent
    procs,     \* the fox invocations under way: where each is, and its locals
    torn,      \* the files opened for writing whose content is not written yet
    delta_cache \* .fox/delta_cache.json: path -> [current_hash, base_hash]

vars == <<wt, clock, objects, packs, staging, commits, head, index, config,
          remote, nextId, put, last, procs, torn, delta_cache>>

---------------------------------------------------------------------------
(* Bounds of the model *)

MaxContent == 1      \* file contents the user writes are 0..MaxContent
MaxFresh == 20       \* distinct contents written in the packing scenario
MaxClock == 2        \* mtimes are 0..MaxClock
MaxCommits == 2      \* commit ids are 1..MaxCommits
MaxLog == 3          \* cap on the length of the local and the remote log

(* Program constants *)

PackThreshold == 20  \* self.pack_threshold
CommitsLimit == 50   \* get_commits_by_repository(limit=50)
None == -1           \* Python's None / a file that does not exist

---------------------------------------------------------------------------
(* Paths, contents, hashes, encodings *)

Paths == {"a/f.txt", "b/f.txt", ".env"}

\* Path(p).name
Basename(p) == IF p = ".env" THEN ".env" ELSE "f.txt"

Contents == 0 .. MaxContent
FreshContents == 1 .. MaxFresh
AllContents == Contents \cup FreshContents
EmptyContent == 0

\* len(content): contents 1 and 2 have the same length
Size(c) == (c + 1) \div 2

ContentHash(c) == [alg |-> "sha256_16", of |-> c]
Sha1(c) == [alg |-> "sha1", of |-> c]

compress_data(c) == [z |-> c]
decompress_data(x) == x.z
B64Encode(x) == [b64 |-> x]
B64Decode(s) == s.b64

\* Python truthiness of a bytes-or-None value
Truthy(x) == x # None /\ x # EmptyContent

Empty == << >>
Put(f, k, v) == [x \in DOMAIN f \cup {k} |-> IF x = k THEN v ELSE f[x]]
Drop(f, K) == [x \in DOMAIN f \ K |-> f[x]]
Range(s) == {s[i] : i \in DOMAIN s}
Ids(log) == {log[i].id : i \in DOMAIN log}

---------------------------------------------------------------------------
(* Object store *)

\* store_object_compressed(content, file_hash): open(obj_path, 'wb') replaces
\* whatever the path held
store_object_compressed(objs, content, h) == Put(objs, h, compress_data(content))

\* load_object_compressed(file_hash): the sharded path, else the legacy flat
\* path (this client never writes one), else None. Packs are not consulted.
load_object_compressed(objs, h) ==
    IF h \in DOMAIN objs THEN decompress_data(objs[h]) ELSE None

PackedHashes(pk) == UNION {pk[i].idx.objects : i \in DOMAIN pk}

\* pack_objects(): returns the pair <<objects, packs>> it leaves on disk
pack_objects(objs, pk) ==
    LET loose_objects == DOMAIN objs
    IN IF Cardinality(loose_objects) < PackThreshold
       THEN <<objs, pk>>
       ELSE LET pack_data == [h \in loose_objects |-> B64Encode(objs[h])]
                idx == [pack_file |-> Len(pk) + 1,
                        object_count |-> Cardinality(DOMAIN pack_data),
                        objects |-> DOMAIN pack_data]
            IN <<Drop(objs, loose_objects),
                 Append(pk, [payload |-> compress_data(pack_data), idx |-> idx])>>

---------------------------------------------------------------------------
(* Index and change detection *)

Exists(p) == p \in DOMAIN wt
\* the hash taken of the path and the content
get_file_hash_OfPath(p) == [alg |-> "sha256_16", of |-> wt[p].content, path |-> p]

\* get_file_hash(filepath)
get_file_hash(p) == ContentHash(wt[p].content)
Stat(p) == [mtime |-> wt[p].mtime, size |-> Size(wt[p].content)]

\* a commit file entry is a dict {path, content} (path # None) or, for commits
\* that came from a server, the bare content string (path = NoPath)
NoPath == ""
IsDictEntry(e) == e.path # NoPath

\* update_index_from_commit(commit_files); raises TypeError on a bare string
UpdateIndexRaises(files) == \E h \in DOMAIN files : ~IsDictEntry(files[h])
update_index_from_commit(files) ==
    LET tracked == {files[h].path : h \in DOMAIN files} \cap DOMAIN wt
        HashOf(p) == CHOOSE h \in DOMAIN files : files[h].path = p
    IN [p \in tracked |->
          [hash |-> HashOf(p), mtime |-> Stat(p).mtime, size |-> Stat(p).size]]

\* init_index_from_last_commit(): the index file it leaves (idx when it returns
\* early or swallows the exception)
init_index_from_last_commit(idx, log) ==
    IF log = << >> THEN idx
    ELSE IF UpdateIndexRaises(log[Len(log)].files) THEN idx
    ELSE update_index_from_commit(log[Len(log)].files)

\* the index both detectors work on: "if not index: init_index_from_last_commit()"
LoadedIndex == IF index = Empty THEN init_index_from_last_commit(index, commits)
               ELSE index

\* get_all_files(): every file no part of whose path is ignored or dot-prefixed
Ignored(p) == p = ".env"
get_all_files == {p \in DOMAIN wt : ~Ignored(p)}

\* the verdict taken from size and mtime alone
get_modified_files_fast_StatOnly ==
    {p \in DOMAIN LoadedIndex :
        \/ ~Exists(p)
        \/ /\ Exists(p)
           /\ \/ Stat(p).size # LoadedIndex[p].size
              \/ Stat(p).mtime # LoadedIndex[p].mtime}

\* get_modified_files_fast()
get_modified_files_fast ==
    {p \in DOMAIN LoadedIndex :
        \/ ~Exists(p)
        \/ /\ Exists(p)
           /\ \/ Stat(p).size # LoadedIndex[p].size
              \/ Stat(p).mtime # LoadedIndex[p].mtime
           /\ get_file_hash(p) # LoadedIndex[p].hash}

\* get_modified_files_comprehensive()
get_modified_files_comprehensive ==
    {p \in get_all_files \cap DOMAIN LoadedIndex :
        get_file_hash(p) # LoadedIndex[p].hash}
    \cup {p \in DOMAIN LoadedIndex : ~Exists(p)}

---------------------------------------------------------------------------
(* The outcome record of a command *)

\* op: the command; result: what it reported; sent: the commit ids it POSTed to
\* /push, in order; got: the commit ids it was handed (the commit made, the
\* commits a pull response held); path, hash: the file an add was given and the
\* hash it computed; checked: the
\* pre-push query for the remote's commits succeeded; net: the command was
\* ended by a request that raised RequestException (timeout, connection error);
\* limit: the -n/--max-count a log was given (None when it was given none)
NoHash == [alg |-> "none", of |-> None]
Outcome(op, result) ==
    [op |-> op, result |-> result, sent |-> << >>, got |-> << >>,
     path |-> "", hash |-> NoHash, checked |-> FALSE, net |-> FALSE,
     limit |-> None]

---------------------------------------------------------------------------
(* The user edits the working tree *)

WriteFile(p, c) ==
    /\ clock < MaxClock
    /\ clock' = clock + 1
    /\ wt' = Put(wt, p, [content |-> c, mtime |-> clock + 1])
    /\ last' = Outcome("write", "ok")
    /\ UNCHANGED <<procs, torn, objects, packs, staging, commits, head, index, config, delta_cache,
                   remote, nextId, put>>

DeleteFile(p) ==
    /\ p \in DOMAIN wt
    /\ wt' = Drop(wt, {p})
    /\ last' = Outcome("delete", "ok")
    /\ UNCHANGED <<procs, torn, clock, objects, packs, staging, commits, head, index, config, delta_cache,
                   remote, nextId, put>>

\* The packing scenario: the user rewrites one file with content never seen
\* before, each time after the previous content was added
PackPath == "b/f.txt"
WriteFresh ==
    LET n == IF Exists(PackPath) THEN wt[PackPath].content + 1 ELSE 1
    IN /\ n \in FreshContents
       /\ Exists(PackPath) => \E pr \in put : pr[2] = wt[PackPath].content
       /\ wt' = Put(wt, PackPath, [content |-> n, mtime |-> n])
       /\ clock' = n
       /\ last' = Outcome("write", "ok")
       /\ UNCHANGED <<procs, torn, objects, packs, staging, commits, head, index, config, delta_cache,
                      remote, nextId, put>>

---------------------------------------------------------------------------
(* fox add <path> *)

\* the base hash left as it was
update_delta_cache_KeepBase(cache, file_path, file_hash) ==
    LET base == IF file_path \in DOMAIN cache THEN cache[file_path].base_hash ELSE NoHash
    IN Put(cache, file_path, [current_hash |-> file_hash, base_hash |-> base])

\* update_delta_cache(file_path, file_hash): the cache it saves; a path with no
\* entry has old_hash None (NoHash)
update_delta_cache(cache, file_path, file_hash) ==
    LET old_hash == IF file_path \in DOMAIN cache THEN cache[file_path].current_hash
                    ELSE NoHash
    IN Put(cache, file_path, [current_hash |-> file_hash, base_hash |-> old_hash])

Add(p) ==
    /\ IF Exists(p)
       THEN LET file_hash == get_file_hash(p)
                content == wt[p].content
            IN /\ objects' = store_object_compressed(objects, content, file_hash)
               /\ put' = put \cup {<<file_hash, content>>}
               /\ staging' = Put(staging, Basename(p),
                                 [path |-> p, hash |-> file_hash])
               /\ delta_cache' = update_delta_cache(delta_cache, p, file_hash)
               /\ last' = [Outcome("add", "added") EXCEPT !.path = p, !.hash = file_hash]
       ELSE /\ last' = Outcome("add", "file_not_found")
            /\ UNCHANGED <<objects, put, staging, delta_cache>>
    /\ UNCHANGED <<procs, torn, wt, clock, packs, commits, head, index, config, remote, nextId>>

---------------------------------------------------------------------------
(* fox commit -m <message> *)

\* the staged records whose object load_object_compressed returns truthy
Committable(h) == Truthy(load_object_compressed(objects, h))

\* the emptiness test left out
NothingStaged_Never(stg) == FALSE

\* "staged_files = list(self.staging_dir.glob('*')); if not staged_files:"
NothingStaged(stg) == DOMAIN stg = {}

Commit ==
    IF NothingStaged(staging)
    THEN /\ last' = Outcome("commit", "EmptyCommit")
         /\ UNCHANGED <<procs, torn, wt, clock, objects, packs, staging, commits, head, index,
                        config, delta_cache, remote, nextId, put>>
    ELSE /\ nextId <= MaxCommits
         /\ Len(commits) < MaxLog
         /\ LET staged == {staging[b] : b \in DOMAIN staging}
                hashes == {s.hash : s \in staged} \cap {h \in DOMAIN objects : Committable(h)}
            IN \* files[hash] = {...}: of two staged records with one hash the
               \* one the directory listing yields last stays
               \E pick \in [hashes -> Paths] :
                 /\ \A h \in hashes : \E s \in staged : s.hash = h /\ s.path = pick[h]
                 /\ LET files == [h \in hashes |->
                                    [path |-> pick[h],
                                     content |-> B64Encode(load_object_compressed(objects, h))]]
                        commit == [id |-> nextId, parent |-> head, files |-> files]
                        loose_count == Cardinality(DOMAIN objects)
                        packed == IF loose_count >= PackThreshold
                                  THEN pack_objects(objects, packs)
                                  ELSE <<objects, packs>>
                    IN /\ commits' = Append(commits, commit)
                       /\ head' = nextId
                       /\ index' = update_index_from_commit(files)
                       /\ staging' = Empty
                       /\ objects' = packed[1]
                       /\ packs' = packed[2]
                       /\ nextId' = nextId + 1
                       /\ last' = [Outcome("commit", "committed") EXCEPT !.got = <<nextId>>]
         /\ UNCHANGED <<procs, torn, wt, clock, config, delta_cache, remote, put>>

---------------------------------------------------------------------------
(* fox gc *)

Gc ==
    /\ LET loose_count == Cardinality(DOMAIN objects)
           packed == pack_objects(objects, packs)
       IN IF loose_count = 0
          THEN /\ last' = Outcome("gc", "nothing_to_pack")
               /\ UNCHANGED <<objects, packs>>
          ELSE /\ objects' = packed[1]
               /\ packs' = packed[2]
               /\ last' = Outcome("gc", "optimized")
    /\ UNCHANGED <<procs, torn, wt, clock, staging, commits, head, index, config, delta_cache, remote,
                   nextId, put>>


---------------------------------------------------------------------------
(* Commands step by step. An invocation of fox is a process of its own; no    *)
(* lock is taken anywhere in the client, so the file operations of two         *)
(* invocations interleave, and an invocation that is killed leaves the files  *)
(* as they are at the step it had reached.                                    *)

Procs == {"p1", "p2"}

NoCommit == [id |-> None, parent |-> None, files |-> Empty]
NoIdx == [pack_file |-> None, object_count |-> 0, objects |-> {}]

\* an invocation that is not running; the locals of one that is: the commit it
\* builds, the log it read, the loose objects it still has to pack, pack_data,
\* and the number of the pack it writes
Idle ==
    [op |-> "idle", at |-> "idle", commit |-> NoCommit, log |-> << >>,
     todo |-> {}, pack_data |-> Empty, pack |-> None]

At(p, op, at) == procs[p].op = op /\ procs[p].at = at
Goto(p, at) == [procs EXCEPT ![p].at = at]

\* commit, lines 663-719: the staging test, the commit id, the parent read
\* from HEAD and the files collected from the staged records
CommitBegin(p) ==
    /\ procs[p] = Idle
    /\ IF NothingStaged(staging)
       THEN /\ last' = Outcome("commit", "EmptyCommit")
            /\ UNCHANGED <<procs, nextId>>
       ELSE /\ nextId <= MaxCommits
            /\ LET staged == {staging[b] : b \in DOMAIN staging}
                   hashes == {s.hash : s \in staged}
                                \cap {h \in DOMAIN objects : Committable(h)}
               IN \E pick \in [hashes -> Paths] :
                    /\ \A h \in hashes :
                          \E s \in staged : s.hash = h /\ s.path = pick[h]
                    /\ LET files == [h \in hashes |->
                              [path |-> pick[h],
                               content |->
                                  B64Encode(load_object_compressed(objects, h))]]
                       IN procs' = [procs EXCEPT ![p] =
                             [Idle EXCEPT !.op = "commit", !.at = "read_log",
                                          !.commit = [id |-> nextId, parent |-> head,
                                                      files |-> files]]]
            /\ nextId' = nextId + 1
            /\ UNCHANGED last
    /\ UNCHANGED <<wt, clock, objects, packs, staging, commits, head, index,
                   config, delta_cache, remote, put, torn>>

\* lines 723-726: json.load of commits.json; a file that is not complete JSON
\* raises JSONDecodeError, which nothing catches
CommitReadLog(p) ==
    /\ At(p, "commit", "read_log")
    /\ IF "commits" \in torn
       THEN /\ procs' = [procs EXCEPT ![p] = Idle]
            /\ last' = Outcome("commit", "JSONDecodeError")
       ELSE /\ procs' = [procs EXCEPT ![p].log = commits, ![p].at = "open_log"]
            /\ UNCHANGED last
    /\ UNCHANGED <<wt, clock, objects, packs, staging, commits, head, index,
                   config, delta_cache, remote, nextId, put, torn>>

\* line 729: open(self.commits_file, "w") truncates the file
CommitOpenLog(p) ==
    /\ At(p, "commit", "open_log")
    /\ commits' = << >>
    /\ torn' = torn \cup {"commits"}
    /\ procs' = Goto(p, "dump_log")
    /\ UNCHANGED <<wt, clock, objects, packs, staging, head, index, config, delta_cache,
                   remote, nextId, put, last>>

\* lines 728, 730: json.dump(commits, f) writes the log this invocation read, with
\* its commit appended
CommitDumpLog(p) ==
    /\ At(p, "commit", "dump_log")
    /\ commits' = Append(procs[p].log, procs[p].commit)
    /\ torn' = torn \ {"commits"}
    /\ procs' = Goto(p, "write_head")
    /\ UNCHANGED <<wt, clock, objects, packs, staging, head, index, config, delta_cache,
                   remote, nextId, put, last>>

\* lines 732-734
CommitWriteHead(p) ==
    /\ At(p, "commit", "write_head")
    /\ head' = procs[p].commit.id
    /\ procs' = Goto(p, "update_index")
    /\ UNCHANGED <<wt, clock, objects, packs, staging, commits, index, config, delta_cache,
                   remote, nextId, put, last, torn>>

\* line 737
CommitUpdateIndex(p) ==
    /\ At(p, "commit", "update_index")
    /\ index' = update_index_from_commit(procs[p].commit.files)
    /\ procs' = Goto(p, "clear_staging")
    /\ UNCHANGED <<wt, clock, objects, packs, staging, commits, head, config, delta_cache,
                   remote, nextId, put, last, torn>>

\* lines 740-741
CommitClearStaging(p) ==
    /\ At(p, "commit", "clear_staging")
    /\ staging' = Empty
    /\ procs' = Goto(p, "count_loose")
    /\ UNCHANGED <<wt, clock, objects, packs, commits, head, index, config, delta_cache,
                   remote, nextId, put, last, torn>>

\* lines 744-747: pack_objects() when there are pack_threshold loose objects
CommitCountLoose(p) ==
    /\ At(p, "commit", "count_loose")
    /\ procs' = Goto(p, IF Cardinality(DOMAIN objects) >= PackThreshold
                        THEN "pack_scan" ELSE "report")
    /\ UNCHANGED <<wt, clock, objects, packs, staging, commits, head, index,
                   config, delta_cache, remote, nextId, put, last, torn>>

\* gc, lines 1316-1330
GcBegin(p) ==
    /\ procs[p] = Idle
    /\ IF Cardinality(DOMAIN objects) = 0
       THEN /\ last' = Outcome("gc", "nothing_to_pack")
            /\ UNCHANGED procs
       ELSE /\ procs' = [procs EXCEPT ![p] =
                           [Idle EXCEPT !.op = "gc", !.at = "pack_scan"]]
            /\ UNCHANGED last
    /\ UNCHANGED <<wt, clock, objects, packs, staging, commits, head, index,
                   config, delta_cache, remote, nextId, put, torn>>

\* pack_objects, lines 292-308: the walk over .fox/objects and the threshold
PackScan(p) ==
    /\ procs[p].at = "pack_scan"
    /\ LET loose_objects == DOMAIN objects
       IN procs' = IF Cardinality(loose_objects) < PackThreshold
                   THEN Goto(p, "report")
                   ELSE [procs EXCEPT ![p].todo = loose_objects,
                                      ![p].pack_data = Empty,
                                      ![p].at = "pack_move"]
    /\ UNCHANGED <<wt, clock, objects, packs, staging, commits, head, index,
                   config, delta_cache, remote, nextId, put, last, torn>>

\* the object the loop "for obj_hash, obj_path in loose_objects" takes next
\* (os.walk yields one fixed order; here: by content)
NextLoose(todo) == CHOOSE h \in todo : \A g \in todo : h.of <= g.of

\* lines 317-325, one turn of the loop: read the object into pack_data and
\* unlink it; an object that is gone raises, is reported and skipped
PackMove(p) ==
    /\ procs[p].at = "pack_move"
    /\ procs[p].todo # {}
    /\ LET h == NextLoose(procs[p].todo)
       IN IF h \in DOMAIN objects
          THEN /\ objects' = Drop(objects, {h})
               /\ procs' = [procs EXCEPT
                              ![p].todo = @ \ {h},
                              ![p].pack_data = Put(@, h, B64Encode(objects[h]))]
          ELSE /\ procs' = [procs EXCEPT ![p].todo = @ \ {h}]
               /\ UNCHANGED objects
    /\ UNCHANGED <<wt, clock, packs, staging, commits, head, index, config, delta_cache,
                   remote, nextId, put, last, torn>>

\* line 331: open(pack_path, 'wb') creates the pack file, empty
PackOpen(p) ==
    /\ procs[p].at = "pack_move"
    /\ procs[p].todo = {}
    /\ packs' = Append(packs, [payload |-> compress_data(Empty), idx |-> NoIdx])
    /\ torn' = torn \cup {"pack"}
    /\ procs' = [procs EXCEPT ![p].pack = Len(packs) + 1, ![p].at = "pack_write"]
    /\ UNCHANGED <<wt, clock, objects, staging, commits, head, index, config, delta_cache,
                   remote, nextId, put, last>>

\* the pack file closed with nothing written to it
PackWrite_Nothing(p) ==
    /\ procs[p].at = "pack_write"
    /\ torn' = torn \ {"pack"}
    /\ procs' = Goto(p, "idx_write")
    /\ UNCHANGED <<wt, clock, objects, packs, staging, commits, head, index, config, delta_cache,
                   remote, nextId, put, last>>

\* line 332: f.write(compressed_pack)
PackWrite(p) ==
    /\ procs[p].at = "pack_write"
    /\ packs' = [packs EXCEPT ![procs[p].pack].payload =
                                 compress_data(procs[p].pack_data)]
    /\ torn' = torn \ {"pack"}
    /\ procs' = Goto(p, "idx_write")
    /\ UNCHANGED <<wt, clock, objects, staging, commits, head, index, config, delta_cache,
                   remote, nextId, put, last>>

\* lines 334-342: open(index_path, 'w') creates the manifest file, empty
IdxOpen(p) ==
    /\ procs[p].at = "idx_write"
    /\ torn' = torn \cup {"idx"}
    /\ procs' = Goto(p, "idx_dump")
    /\ UNCHANGED <<wt, clock, objects, packs, staging, commits, head, index, config, delta_cache,
                   remote, nextId, put, last>>

\* line 343: json.dump(index, f) writes the manifest
IdxWrite(p) ==
    /\ procs[p].at = "idx_dump"
    /\ packs' = [packs EXCEPT ![procs[p].pack].idx =
                   [pack_file |-> procs[p].pack,
                    object_count |-> Cardinality(DOMAIN procs[p].pack_data),
                    objects |-> DOMAIN procs[p].pack_data]]
    /\ torn' = torn \ {"idx"}
    /\ procs' = Goto(p, "report")
    /\ UNCHANGED <<wt, clock, objects, staging, commits, head, index, config, delta_cache,
                   remote, nextId, put, last>>

\* commit, lines 749-753, and gc, lines 1332-1340: the report and the return
Report(p) ==
    /\ procs[p].at = "report"
    /\ last' = IF procs[p].op = "commit"
               THEN [Outcome("commit", "committed")
                       EXCEPT !.got = <<procs[p].commit.id>>]
               ELSE Outcome("gc", "optimized")
    /\ procs' = [procs EXCEPT ![p] = Idle]
    /\ UNCHANGED <<wt, clock, objects, packs, staging, commits, head, index,
                   config, delta_cache, remote, nextId, put, torn>>

\* the invocation is killed (or the machine stops): the files stay as they are
Kill(p) ==
    /\ procs[p] # Idle
    /\ last' = Outcome(procs[p].op, "killed")
    /\ procs' = [procs EXCEPT ![p] = Idle]
    /\ UNCHANGED <<wt, clock, objects, packs, staging, commits, head, index,
                   config, delta_cache, remote, nextId, put, torn>>

---------------------------------------------------------------------------
(* The servers. remote.kind is "sql" (server/server.py over database/crud.py)  *)
(* or "flat" (foxnest_server.py). A stored commit is [id, parent, files] with  *)
(* files: the key it was pushed under -> the decoded content.                  *)

RepoId == 1

Reverse(s) == [i \in 1 .. Len(s) |-> s[Len(s) + 1 - i]]
Take(s, n) == [i \in 1 .. (IF Len(s) < n THEN Len(s) ELSE n) |-> s[i]]

\* the longest prefix of s that stops before the first element with id x
RECURSIVE UntilId(_, _)
UntilId(s, x) ==
    IF s = << >> \/ Head(s).id = x THEN << >>
    ELSE <<Head(s)>> \o UntilId(Tail(s), x)

\* what the client puts in a push request: {hash: content} for both entry shapes
ServerFiles(files) == [h \in DOMAIN files |-> files[h].content]

\* CommitCRUD.create_commit / FileObjectCRUD.store_file_and_create_commit_file:
\* the row to insert; a second row with the same primary key raises
SqlStored(commit_data) ==
    [id |-> commit_data.id, parent |-> commit_data.parent,
     files |-> [k \in DOMAIN commit_data.files |-> B64Decode(commit_data.files[k])]]

SqlPushCommit(r, commit_data) ==
    IF ~r.exists \/ commit_data.id \in Ids(r.commits)
    THEN [ok |-> FALSE, remote |-> r]
    ELSE [ok |-> TRUE,
          remote |-> [r EXCEPT !.commits = Append(@, SqlStored(commit_data)),
                               !.head = commit_data.id]]

\* FoxNestServer.store_commit + push_commit: the commit file is rewritten and
\* the id appended to metadata["commits"], whether it is there already or not
FlatPushCommit(r, commit_data) ==
    IF ~r.exists
    THEN [ok |-> FALSE, remote |-> r]
    ELSE [ok |-> TRUE,
          remote |-> [r EXCEPT !.commits = Append(@, SqlStored(commit_data)),
                               !.head = commit_data.id]]

PushCommit(r, commit_data) ==
    IF r.kind = "sql" THEN SqlPushCommit(r, commit_data)
    ELSE FlatPushCommit(r, commit_data)

\* CommitCRUD.get_commits_by_repository: newest first, at most `limit`
get_commits_by_repository(r) == Take(Reverse(r.commits), CommitsLimit)

\* commit_to_dict(commit, include_files=True): files keyed by the SHA-1 the
\* server computed, each the base64 of the stored content
commit_to_dict(c) ==
    LET keys == {Sha1(c.files[k]) : k \in DOMAIN c.files}
    IN [id |-> c.id, parent |-> c.parent,
        files |-> [s \in keys |-> [path |-> NoPath, content |-> B64Encode(s.of)]]]

\* the bytes that hold a carriage return ("\r\n" line ends): the odd contents
HasCR(c) == c % 2 = 1

\* open(path, "r").read() of a file that holds the bytes c: a text-mode read
\* gives "\n" for every "\r\n" and "\r", which are other and shorter bytes
UniversalNewlines(c) == IF HasCR(c) THEN 2 * (MaxFresh + c) ELSE c

\* FoxNestServer.get_file_content: the object file, which store_commit wrote
\* in text mode from the decoded request (the contents here are UTF-8 text,
\* which .decode('utf-8') accepts), read in text mode and encoded again
get_file_content(stored) == B64Encode(UniversalNewlines(stored))

\* the Flask server's commit as returned by pull: files keyed as pushed; an
\* entry is replaced by the object file's content "if content:", else it stays
\* the base64 string of the request
FlatCommitDict(c) ==
    [id |-> c.id, parent |-> c.parent,
     files |-> [k \in DOMAIN c.files |->
                  [path |-> NoPath,
                   content |-> IF UniversalNewlines(c.files[k]) # EmptyContent
                               THEN get_file_content(c.files[k])
                               ELSE B64Encode(c.files[k])]]]

\* request.args.get(name) / an optional query parameter
QueryParam(params, name) == IF name \in DOMAIN params THEN params[name] ELSE None

\* server.py pull_commits(repo_id, since_commit=None)
SqlPullCommits(r, params) ==
    LET since_commit == QueryParam(params, "since_commit")
        all == get_commits_by_repository(r)
        filtered == IF since_commit # None THEN UntilId(all, since_commit) ELSE all
    IN [commits |-> [i \in DOMAIN filtered |-> commit_to_dict(filtered[i])], head |-> r.head]

\* foxnest_server.py pull_commits(repo_id)
FlatPullCommits(r, params) ==
    LET since_commit == QueryParam(params, "since")
        filtered == IF since_commit # None THEN UntilId(r.commits, since_commit)
                    ELSE r.commits
    IN [commits |-> [i \in DOMAIN filtered |-> FlatCommitDict(filtered[i])], head |-> r.head]

pull_commits(r, params) ==
    IF r.kind = "sql" THEN SqlPullCommits(r, params) ELSE FlatPullCommits(r, params)

\* GET /api/repository/<id>/commits: newest first
get_commits(r) ==
    IF r.kind = "sql" THEN get_commits_by_repository(r) ELSE Reverse(r.commits)

---------------------------------------------------------------------------
(* fox set origin <url> *)

\* the server_url that init wrote taken for the origin
get_origin_url_Default == TRUE

\* get_origin_url(): config.get("origin_url"), None until an origin is set
get_origin_url == config.origin_url

SetOrigin ==
    /\ config' = [config EXCEPT !.origin_url = TRUE]
    /\ last' = Outcome("set_origin", "ok")
    /\ UNCHANGED <<procs, torn, wt, clock, objects, packs, staging, commits, head, index,
                   remote, nextId, put, delta_cache>>

---------------------------------------------------------------------------
(* fox push *)

\* the request body of one POST /push
CommitData(c) == [id |-> c.id, parent |-> c.parent, files |-> ServerFiles(c.files)]

\* the loop going on after a request that failed
RECURSIVE PushEach_Continue(_, _, _, _)
PushEach_Continue(r, log, i, failAt) ==
    IF i > Len(log) THEN [remote |-> r, sent |-> << >>, ok |-> TRUE, net |-> FALSE]
    ELSE LET res == IF i = failAt THEN [ok |-> FALSE, remote |-> r]
                    ELSE PushCommit(r, CommitData(log[i]))
             rest == PushEach_Continue(res.remote, log, i + 1, failAt)
         IN [rest EXCEPT !.sent = <<log[i].id>> \o @, !.ok = res.ok /\ @,
                         !.net = (i = failAt) \/ @]

\* "for commit in commits": POST each commit of the log from position i on; the
\* request at position failAt raises RequestException. Returns the remote it
\* leaves, the ids it POSTed, whether every request succeeded and whether the
\* one that did not raised RequestException (net) or was answered with an error.
RECURSIVE PushEach(_, _, _, _)
PushEach(r, log, i, failAt) ==
    IF i > Len(log) THEN [remote |-> r, sent |-> << >>, ok |-> TRUE, net |-> FALSE]
    ELSE IF i = failAt
    THEN [remote |-> r, sent |-> <<log[i].id>>, ok |-> FALSE, net |-> TRUE]
    ELSE LET res == PushCommit(r, CommitData(log[i]))
         IN IF ~res.ok
            THEN [remote |-> r, sent |-> <<log[i].id>>, ok |-> FALSE, net |-> FALSE]
            ELSE LET rest == PushEach(res.remote, log, i + 1, failAt)
                 IN [rest EXCEPT !.sent = <<log[i].id>> \o @]

\* the remote history written before the request is known to have got through
pull_existing_repository_Eager(r, netFull) ==
    LET listed == get_commits(r)
        remote_commits == Reverse([i \in DOMAIN listed |-> commit_to_dict(listed[i])])
    IN [ok |-> netFull,
        local |-> [commits |-> remote_commits,
                   head |-> IF remote_commits = << >> THEN head
                            ELSE remote_commits[Len(remote_commits)].id,
                   index |-> index]]

\* pull_existing_repository(config): the local [commits, head, index] it leaves
\* and its return value. netFull: the GET .../commits?full=true got through.
pull_existing_repository(r, netFull) ==
    LET unchanged == [commits |-> commits, head |-> head, index |-> index]
        listed == get_commits(r)
        remote_commits == Reverse([i \in DOMAIN listed |-> commit_to_dict(listed[i])])
    IN IF ~netFull THEN [ok |-> FALSE, local |-> unchanged]
       ELSE IF remote_commits = << >> THEN [ok |-> TRUE, local |-> unchanged]
       ELSE [ok |-> TRUE,
             local |-> [commits |-> remote_commits,
                        head |-> remote_commits[Len(remote_commits)].id,
                        index |-> init_index_from_last_commit(index, remote_commits)]]

\* create_remote_repository(config): the repo id it returns (None on failure),
\* the remote and the config file and local files it leaves.
\* netCreate / netList / netFull: the three requests got through.
create_remote_repository(netCreate, netList, netFull) ==
    LET unchanged == [commits |-> commits, head |-> head, index |-> index]
        failed == [repo_id |-> None, remote |-> remote, config |-> config,
                   local |-> unchanged]
    IN IF ~netCreate THEN failed
       ELSE IF ~remote.exists
       THEN [failed EXCEPT !.repo_id = RepoId, !.remote = [remote EXCEPT !.exists = TRUE]]
       \* "already exists": get_existing_repository_id asks /api/repository/list,
       \* a route only server.py has
       ELSE IF remote.kind = "flat" \/ ~netList THEN failed
       ELSE LET adopted == pull_existing_repository(remote, netFull)
            IN [repo_id |-> IF adopted.ok THEN RepoId ELSE None,
                remote |-> remote,
                config |-> [config EXCEPT !.repo_id = RepoId],
                local |-> adopted.local]

\* the filter left out
NewCommits_All(log, remote_commit_ids) == log

\* "new_commits = [c for c in commits if c['id'] not in remote_commit_ids]"
NewCommits(log, remote_commit_ids) ==
    SelectSeq(log, LAMBDA c : c.id \notin remote_commit_ids)

Push ==
    IF ~get_origin_url
    THEN /\ last' = Outcome("push", "NoOriginConfigured")
         /\ UNCHANGED <<procs, torn, wt, clock, objects, packs, staging, commits, head, index,
                        config, delta_cache, remote, nextId, put>>
    ELSE \E netCreate, netList, netFull, netCheck \in BOOLEAN :
         \E failAt \in 1 .. Len(commits) + Len(remote.commits) + 1 :
         \* a request that is never made has no outcome to choose
         /\ config.repo_id # None => netCreate
         /\ (config.repo_id # None \/ ~netCreate \/ ~remote.exists
               \/ remote.kind = "flat") => netList
         /\ (config.repo_id # None \/ ~netCreate \/ ~remote.exists
               \/ remote.kind = "flat" \/ ~netList) => netFull
         /\ LET created == IF config.repo_id = None
                           THEN create_remote_repository(netCreate, netList, netFull)
                           ELSE [repo_id |-> config.repo_id, remote |-> remote,
                                 config |-> config,
                                 local |-> [commits |-> commits, head |-> head,
                                            index |-> index]]
                log == created.local.commits
                remote_commit_ids == Ids(get_commits(created.remote))
                new_commits == NewCommits(log, remote_commit_ids)
                pushed == PushEach(created.remote, log, 1, failAt)
            IN /\ commits' = created.local.commits
               /\ head' = created.local.head
               /\ index' = created.local.index
               /\ IF created.repo_id = None
                  THEN /\ config' = created.config
                       /\ remote' = created.remote
                       /\ last' = [Outcome("push", "create_failed")
                                     EXCEPT !.net = ~(netCreate /\ netList /\ netFull)]
                  ELSE /\ config' = [created.config EXCEPT !.repo_id = created.repo_id]
                       /\ IF log = << >>
                          THEN /\ remote' = created.remote
                               /\ last' = Outcome("push", "up_to_date")
                          ELSE IF netCheck /\ new_commits = << >>
                          THEN /\ remote' = created.remote
                               /\ last' = [Outcome("push", "up_to_date")
                                             EXCEPT !.checked = TRUE]
                          ELSE /\ Len(pushed.remote.commits) <= MaxLog
                               /\ remote' = pushed.remote
                               /\ last' = [Outcome("push", IF pushed.ok THEN "pushed"
                                                           ELSE "push_failed")
                                             EXCEPT !.sent = pushed.sent,
                                                    !.checked = netCheck,
                                                    !.net = pushed.net]
               /\ UNCHANGED <<procs, torn, wt, clock, objects, packs, staging, nextId, put,
                              delta_cache>>

---------------------------------------------------------------------------
(* fox pull *)

\* "for commit in commits: for file_hash, content in commit['files'].items():
\*  store_object_compressed(base64.b64decode(content), file_hash)"
\* the files of a commit left out of the object store
StoreFiles_Skip(objs, files) == objs

RECURSIVE StoreFiles(_, _)
StoreFiles(objs, files) ==
    IF DOMAIN files = {} THEN objs
    ELSE LET h == CHOOSE k \in DOMAIN files : TRUE
         IN StoreFiles(store_object_compressed(objs, B64Decode(files[h].content), h),
                       Drop(files, {h}))

RECURSIVE StoreCommits(_, _)
StoreCommits(objs, cs) ==
    IF cs = << >> THEN objs
    ELSE StoreCommits(StoreFiles(objs, Head(cs).files), Tail(cs))

PulledPairs(cs) ==
    UNION {{<<h, B64Decode(cs[i].files[h].content)>> : h \in DOMAIN cs[i].files} :
             i \in DOMAIN cs}

Pull ==
    IF ~get_origin_url
    THEN /\ last' = Outcome("pull", "NoOriginConfigured")
         /\ UNCHANGED <<procs, torn, wt, clock, objects, packs, staging, commits, head, index,
                        config, delta_cache, remote, nextId, put>>
    ELSE IF config.repo_id = None
    THEN /\ last' = Outcome("pull", "no_remote_repository")
         /\ UNCHANGED <<procs, torn, wt, clock, objects, packs, staging, commits, head, index,
                        config, delta_cache, remote, nextId, put>>
    ELSE \E net \in BOOLEAN :
         LET since_commit == head
             params == IF since_commit # None THEN [since |-> since_commit] ELSE Empty
             data == pull_commits(remote, params)
         IN IF ~net
            THEN /\ last' = [Outcome("pull", "NetworkError") EXCEPT !.net = TRUE]
                 /\ UNCHANGED <<procs, torn, wt, clock, objects, packs, staging, commits, head,
                                index, config, delta_cache, remote, nextId, put>>
            ELSE IF data.commits = << >>
            THEN /\ last' = Outcome("pull", "up_to_date")
                 /\ UNCHANGED <<procs, torn, wt, clock, objects, packs, staging, commits, head,
                                index, config, delta_cache, remote, nextId, put>>
            ELSE /\ Len(commits) + Len(data.commits) <= MaxLog
                 /\ objects' = StoreCommits(objects, data.commits)
                 /\ put' = put \cup PulledPairs(data.commits)
                 /\ commits' = commits \o data.commits
                 /\ head' = IF data.head # None THEN data.head ELSE head
                 /\ last' = [Outcome("pull", "pulled")
                               EXCEPT !.got = [i \in DOMAIN data.commits |-> data.commits[i].id]]
                 /\ UNCHANGED <<procs, torn, wt, clock, packs, staging, index, config, delta_cache, remote,
                                nextId>>

---------------------------------------------------------------------------
(* Another working copy of the same repository pushes a commit of its own:   *)
(* it creates the repository if need be and POSTs one new commit whose       *)
(* parent is the remote head.                                                *)

OtherPush(c) ==
    /\ nextId <= MaxCommits
    /\ Len(remote.commits) < MaxLog
    /\ LET r == [remote EXCEPT !.exists = TRUE]
           commit_data == [id |-> nextId, parent |-> r.head,
                           files |-> [h \in {ContentHash(c)} |-> B64Encode(c)]]
       IN remote' = PushCommit(r, commit_data).remote
    /\ nextId' = nextId + 1
    /\ last' = Outcome("other_push", "ok")
    /\ UNCHANGED <<procs, torn, wt, clock, objects, packs, staging, commits, head, index,
                   config, delta_cache, put>>

---------------------------------------------------------------------------
(* fox log [--oneline] [-n <max_count>] *)

\* the values of -n/--max-count (type=int), and None for the option left out
Limits == {None} \cup (0 .. MaxLog + 1)

\* s[-n:] for n > 0
LastN(s, n) == IF n >= Len(s) THEN s ELSE SubSeq(s, Len(s) - n + 1, Len(s))

\* log(max_count) and log_oneline(max_count) choose and order the commits alike:
\* "if max_count: commits_to_show = commits[-max_count:]", then reversed(...)
log_oneline(cs, max_count) ==
    LET commits_to_show == IF max_count # None /\ max_count # 0
                           THEN LastN(cs, max_count) ELSE cs
    IN Reverse(commits_to_show)

Log(max_count) ==
    /\ LET shown == log_oneline(commits, max_count)
       IN last' = [Outcome("log", IF commits = << >> THEN "no_commits" ELSE "ok")
                     EXCEPT !.got = [i \in DOMAIN shown |-> shown[i].id],
                            !.limit = max_count]
    /\ UNCHANGED <<procs, torn, wt, clock, objects, packs, staging, commits, head, index,
                   config, delta_cache, remote, nextId, put>>

---------------------------------------------------------------------------
(* Specifications *)

\* fox init in a directory that holds the files of `tree`, against a server
\* of one of `kinds`
InitWith(tree, kinds) ==
    /\ wt = tree
    /\ clock = 0
    /\ objects = Empty
    /\ packs = << >>
    /\ staging = Empty
    /\ commits = << >>
    /\ head = None
    /\ index = Empty
    /\ config = [origin_url |-> FALSE, repo_id |-> None]
    /\ remote \in {[kind |-> k, exists |-> FALSE, commits |-> << >>, head |-> None] :
                   k \in kinds}
    /\ nextId = 1
    /\ put = {}
    /\ last = Outcome("init", "ok")
    /\ procs = [p \in Procs |-> Idle]
    /\ torn = {}
    /\ delta_cache = Empty

\* Local commands in an empty directory (no command here reaches the server)
Init == InitWith(Empty, {"sql"})

Next ==
    \/ \E p \in Paths, c \in Contents : WriteFile(p, c)
    \/ \E p \in Paths : DeleteFile(p)
    \/ \E p \in Paths : Add(p)
    \/ Commit
    \/ Gc

Spec == Init /\ [][Next]_vars

\* Enough distinct objects for pack_objects to reach its threshold
NextPack ==
    \/ WriteFresh
    \/ Add(PackPath)
    \/ Commit
    \/ Gc

SpecPack == Init /\ [][NextPack]_vars

\* Synchronisation with a server: fox init in a directory that holds one file
SyncPath == "a/f.txt"
InitSync ==
    InitWith([p \in {SyncPath} |-> [content |-> 1, mtime |-> 0]], {"sql", "flat"})

NextSync ==
    \/ Add(SyncPath)
    \/ Commit
    \/ SetOrigin
    \/ Push
    \/ Pull
    \/ \E c \in Contents \ {EmptyContent} : OtherPush(c)

SpecSync == InitSync /\ [][NextSync]_vars

\* Two invocations in a working copy that holds one file: add runs alone, the
\* steps of two commits interleave
NextSteps ==
    \/ Add(SyncPath)
    \/ \E p \in Procs : CommitBegin(p)
    \/ \E p \in Procs : CommitReadLog(p)
    \/ \E p \in Procs : CommitOpenLog(p)
    \/ \E p \in Procs : CommitDumpLog(p)
    \/ \E p \in Procs : CommitWriteHead(p)
    \/ \E p \in Procs : CommitUpdateIndex(p)
    \/ \E p \in Procs : CommitClearStaging(p)
    \/ \E p \in Procs : CommitCountLoose(p)
    \/ \E p \in Procs : Report(p)

InitSteps == InitWith([p \in {SyncPath} |-> [content |-> 1, mtime |-> 0]], {"sql"})

SpecSteps == InitSteps /\ [][NextSteps]_vars

\* One invocation at a time, which may be killed at any step
NextCrash ==
    \/ Add(SyncPath)
    \/ CommitBegin("p1")
    \/ CommitReadLog("p1")
    \/ CommitOpenLog("p1")
    \/ CommitDumpLog("p1")
    \/ CommitWriteHead("p1")
    \/ CommitUpdateIndex("p1")
    \/ CommitClearStaging("p1")
    \/ CommitCountLoose("p1")
    \/ Report("p1")
    \/ Kill("p1")

SpecCrash == InitSteps /\ [][NextCrash]_vars

\* The packing scenario with gc step by step, adds going on beside it; the gc
\* may be killed at any step
NextGc ==
    \/ WriteFresh
    \/ Add(PackPath)
    \/ GcBegin("p1")
    \/ PackScan("p1")
    \/ PackMove("p1")
    \/ PackOpen("p1")
    \/ PackWrite("p1")
    \/ IdxOpen("p1")
    \/ IdxWrite("p1")
    \/ Report("p1")
    \/ Kill("p1")

SpecGc == Init /\ [][NextGc]_vars

\* The history of a working copy with one file, shown with every limit
NextLog ==
    \/ \E c \in Contents : WriteFile(SyncPath, c)
    \/ Add(SyncPath)
    \/ Commit
    \/ \E max_count \in Limits : Log(max_count)

SpecLog == InitSteps /\ [][NextLog]_vars

\* Local commands over two of the paths, one of them ignored by get_all_files
LocalPaths == {"a/f.txt", ".env"}
NextLocal ==
    \/ \E p \in LocalPaths, c \in Contents : WriteFile(p, c)
    \/ \E p \in LocalPaths : DeleteFile(p)
    \/ \E p \in LocalPaths : Add(p)
    \/ Commit
    \/ Gc

SpecLocal == Init /\ [][NextLocal]_vars

\* Files written and added over and again
NextAdd ==
    \/ \E p \in Paths, c \in Contents : WriteFile(p, c)
    \/ \E p \in Paths : Add(p)

SpecAdd == Init /\ [][NextAdd]_vars

---------------------------------------------------------------------------
(* Properties *)

get(h) == load_object_compressed(objects, h)

\* a step of one command is a step that leaves that command's outcome in `last`
Did(op) == last'.op = op
Ran(op, result) == last'.op = op /\ last'.result = result

\* C1: every content C that was put under hash(C) is what get(hash(C)) returns,
\* in every later state, whether the object is loose or in a pack
C1_GetReturnsWhatWasPut ==
    \A pr \in put : pr[1] = ContentHash(pr[2]) => get(pr[1]) = pr[2]

\* C2: when pack_objects has written a pack, no hash of its manifest is left
\* as a loose object and get still succeeds for each of them
C2_PackedStillResolvable ==
    [][packs' # packs =>
         \A h \in packs'[Len(packs')].idx.objects :
            /\ h \notin DOMAIN objects'
            /\ load_object_compressed(objects', h) # None]_vars

\* C3: a commit with N staged entries appends exactly one commit, with exactly
\* N file entries, whose parent is the HEAD of before (None when there was
\* none), and HEAD is the new commit's id afterwards
C3_CommitOfNStagedEntries ==
    [][(Did("commit") /\ ~NothingStaged(staging)) =>
         /\ Len(commits') = Len(commits) + 1
         /\ SubSeq(commits', 1, Len(commits)) = commits
         /\ Cardinality(DOMAIN commits'[Len(commits')].files)
              = Cardinality(DOMAIN staging)
         /\ commits'[Len(commits')].parent = head
         /\ head' = commits'[Len(commits')].id]_vars

\* C4: commit on an empty staging area fails with EmptyCommit and leaves the
\* commit log and HEAD as they were
C4_EmptyCommitFails ==
    [][(Did("commit") /\ DOMAIN staging = {}) =>
         /\ last'.result = "EmptyCommit"
         /\ commits' = commits
         /\ head' = head]_vars

C4_Witness ==
    /\ last.op = "commit" /\ last.result = "EmptyCommit"
    /\ commits # << >> /\ head # None /\ DOMAIN staging = {}

C6_PushSendsOnlyMissing ==
    [][(Did("push") /\ last'.checked) =>
         /\ \A i \in DOMAIN last'.sent : last'.sent[i] \notin Ids(get_commits(remote))
         /\ last'.result = "pushed" =>
              LET missing == NewCommits(commits', Ids(get_commits(remote)))
              IN last'.sent = [i \in DOMAIN missing |-> missing[i].id]]_vars

\* the remote's commits strictly after commit s, in the order it received them
RECURSIVE AfterId(_, _)
AfterId(s, x) ==
    IF s = << >> THEN << >>
    ELSE IF x \in Ids(Tail(s)) THEN AfterId(Tail(s), x)
    ELSE IF Head(s).id = x THEN Tail(s)
    ELSE s

\* C7: a pull with since = HEAD from a remote that holds nothing newer than
\* HEAD returns no commit and leaves the commit log, HEAD and the object
\* store as they were
C7_PullAtHeadIsNoOp ==
    [][(/\ Did("pull")
        /\ last'.result \in {"pulled", "up_to_date"}
        /\ head # None
        /\ head \in Ids(remote.commits)
        /\ AfterId(remote.commits, head) = << >>) =>
         /\ last'.got = << >>
         /\ commits' = commits
         /\ head' = head
         /\ objects' = objects]_vars

\* C8: the commits a pull with since = s returns are exactly the remote's
\* commits strictly after s; s and the commits before it are not returned
C8_PullReturnsCommitsAfterSince ==
    [][(/\ Did("pull")
        /\ last'.result \in {"pulled", "up_to_date"}
        /\ head # None
        /\ head \in Ids(remote.commits)) =>
         Range(last'.got) = Ids(AfterId(remote.commits, head))]_vars

\* C9: the fast and the comprehensive detection report the same changed paths
C9_DetectorsAgree == get_modified_files_fast = get_modified_files_comprehensive

\* C10: an add of content that the store already holds as a loose object (a
\* second put of the same content) computes the hash that object is stored
\* under and leaves the object store as it was, with one object of that content
C10_PutIsIdempotent ==
    [][(/\ Ran("add", "added")
        /\ \E h \in DOMAIN objects :
              objects[h] = compress_data(wt[last'.path].content)) =>
         /\ last'.hash \in DOMAIN objects
         /\ objects[last'.hash] = compress_data(wt[last'.path].content)
         /\ objects' = objects
         /\ packs' = packs
         /\ Cardinality({h \in DOMAIN objects' :
               objects'[h] = compress_data(wt[last'.path].content)}) = 1]_vars

\* a second add of the same content has just run: another path is staged with
\* the hash this add returned
C10_Witness ==
    /\ last.op = "add" /\ last.result = "added"
    /\ \E b \in DOMAIN staging :
          staging[b].path # last.path /\ staging[b].hash = last.hash

\* C11: a commit that leaves at least PackThreshold loose objects writes
\* exactly one new pack whose manifest lists all of them, leaves none of them
\* loose, and get still returns each one's content
C11_AutoPackKeepsObjects ==
    [][(Ran("commit", "committed") /\ Cardinality(DOMAIN objects) >= PackThreshold) =>
         /\ Len(packs') = Len(packs) + 1
         /\ packs'[Len(packs')].idx.objects = DOMAIN objects
         /\ packs'[Len(packs')].idx.object_count = Cardinality(DOMAIN objects)
         /\ DOMAIN objects' \cap DOMAIN objects = {}
         /\ \A h \in DOMAIN objects :
               load_object_compressed(objects', h) = decompress_data(objects[h])]_vars

\* C12: a manual gc on a store with at least one loose object packs them all,
\* whatever their number: no loose object remains and a pack lists them
C12_ManualGcIgnoresThreshold ==
    [][(Did("gc") /\ DOMAIN objects # {}) =>
         /\ DOMAIN objects' = {}
         /\ Len(packs') = Len(packs) + 1
         /\ packs'[Len(packs')].idx.objects = DOMAIN objects]_vars

\* C13: the local commit log only grows at its end: the log before any step is
\* a prefix of the log after it
C13_LogAppendOnly ==
    [][/\ Len(commits') >= Len(commits)
       /\ SubSeq(commits', 1, Len(commits)) = commits]_vars

\* C18: in a push one of whose requests fails, the failed request is the last
\* one made, the commits sent are a prefix of the local log, those sent before
\* the failure are the commits the remote gained, and the push reports failure
C18_PushStopsAtFirstFailure ==
    [][(/\ Did("push")
        /\ last'.sent # << >>
        /\ Len(remote'.commits) - Len(remote.commits) < Len(last'.sent)) =>
         LET sent == last'.sent
             k == Len(sent)
             base == Len(remote.commits)
         IN /\ last'.result = "push_failed"
            /\ k <= Len(commits')
            /\ \A i \in 1 .. k : sent[i] = commits'[i].id
            /\ Len(remote'.commits) = base + k - 1
            /\ \A i \in 1 .. k - 1 : remote'.commits[base + i].id = sent[i]]_vars

\* a push failed at its second request: the first commit was accepted
C18_Witness ==
    /\ last.op = "push" /\ last.result = "push_failed"
    /\ Len(last.sent) = 2
    /\ last.sent[1] \in Ids(remote.commits)
    /\ last.sent[2] \notin Ids(remote.commits)

\* C19: a push whose create step found the repository existing and adopted it
\* with success leaves every commit the remote held in the local log, and every blob those commits reference
\* resolvable through get
C19_AdoptReplaysHistory ==
    [][(/\ Did("push")
        /\ config.repo_id = None
        /\ config'.repo_id # None
        /\ last'.result # "create_failed"
        /\ remote.exists) =>
         /\ Ids(remote.commits) \subseteq Ids(commits')
         /\ \A i \in DOMAIN commits' :
               Ids(remote.commits) # {} =>
                  \A k \in DOMAIN commits'[i].files :
                     load_object_compressed(objects', k) # None]_vars

\* C20: an add gives the path its own staging record and keeps the record of
\* every path staged before, also of a path with the same base name
C20_StagingKeyedByPath ==
    [][Ran("add", "added") =>
         {staging'[b].path : b \in DOMAIN staging'}
            = {staging[b].path : b \in DOMAIN staging} \cup {last'.path}]_vars

\* C14: in every state, also one that a commit killed at any of its steps
\* leaves behind, HEAD is unset or names a commit that is in the commit log
C14_HeadNamesLoggedCommit == head = None \/ head \in Ids(commits)

\* the files of the object store: every content that was put is a loose
\* object, or is in the payload of a pack whose payload and manifest are written
Resolvable(h) ==
    \/ h \in DOMAIN objects
    \/ \E i \in DOMAIN packs :
          /\ packs[i].idx # NoIdx
          /\ h \in DOMAIN decompress_data(packs[i].payload)

\* C15: at every step of pack_objects, every object that was stored is still a
\* loose file or inside a pack that is written
C15_UnlinkOnlyAfterPackWritten == \A pr \in put : Resolvable(pr[1])

\* an invocation that has begun to change staging, index, object store or
\* commit log and has not finished
Mutating(p) ==
    procs[p].at \in {"dump_log", "write_head", "update_index", "clear_staging",
                     "pack_write", "idx_write", "idx_dump"}

\* C16: no two invocations are inside their mutating sections at once
C16_MutatingSectionsExclusive ==
    \A p, q \in Procs : (Mutating(p) /\ Mutating(q)) => p = q

\* C17: while a commit appends to the log, the log on disk is complete and is
\* the log the commit read or that log with the new commit appended
C17_LogAppendAtomic ==
    \A p \in Procs :
       (procs[p].op = "commit" /\ procs[p].at \in {"dump_log", "write_head"}) =>
          /\ "commits" \notin torn
          /\ commits \in {procs[p].log, Append(procs[p].log, procs[p].commit)}


\* C21: the configuration gains a remote repository id only in a push whose
\* create-or-adopt step succeeded; a push that reports that this step failed
\* leaves no remote id in the configuration
C21_RepoIdOnlyAfterCreateSucceeded ==
    [][/\ config'.repo_id # config.repo_id =>
            /\ Did("push")
            /\ config.repo_id = None
            /\ last'.result # "create_failed"
       /\ (Ran("push", "create_failed") /\ config.repo_id = None) =>
            config'.repo_id = None]_vars


\* what the server answers to the pull request made in this state
PullData == pull_commits(remote, IF head # None THEN [since |-> head] ELSE Empty)

\* C22: a pull that returns commits leaves every file of every returned commit
\* in the object store, base64-decoded, under the key it came with; appends the
\* returned commits to the local log; and sets HEAD to the head of the response
\* if there is one, else leaves HEAD as it was
C22_PullStoresAppendsSetsHead ==
    [][Ran("pull", "pulled") =>
         LET data == PullData
         IN /\ data.commits # << >>
            /\ \A i \in DOMAIN data.commits : \A k \in DOMAIN data.commits[i].files :
                  load_object_compressed(objects', k)
                     = B64Decode(data.commits[i].files[k].content)
            /\ commits' = commits \o data.commits
            /\ head' = IF data.head # None THEN data.head ELSE head]_vars

\* a pull brought a commit with a file that was not in the local object store
C22_Witness ==
    /\ last.op = "pull" /\ last.result = "pulled"
    /\ last.got # << >>
    /\ \E i \in DOMAIN commits :
          /\ commits[i].id = last.got[1]
          /\ DOMAIN commits[i].files # {}
          /\ DOMAIN commits[i].files \subseteq DOMAIN objects
    /\ head = remote.head


\* C23 as stated: a push or pull ended by a request that timed out or could not
\* connect leaves the commit log, HEAD, the object store, the index and staging
\* as they were before the command
C23_NetworkErrorChangesNothing ==
    [][((Did("push") \/ Did("pull")) /\ last'.net) =>
         UNCHANGED <<commits, head, objects, packs, index, staging>>]_vars

\* a push of this state adopts the repository the remote already holds
Adopts == config.repo_id = None /\ remote.exists /\ remote.kind = "sql"

\* C23: a push or pull ended by a request that timed out or could not connect
\* leaves the object store and staging as they were, and the commit log, HEAD
\* and the index as the requests that succeeded before it left them: as they
\* were before the command, or, in a push that has adopted the remote
\* repository before the failing request, as the adoption wrote them
C23_FailedRequestChangesNothing ==
    [][((Did("push") \/ Did("pull")) /\ last'.net) =>
         LET adopted == Did("push") /\ Adopts /\ last'.result = "push_failed"
             local == pull_existing_repository(remote, TRUE).local
         IN /\ UNCHANGED <<objects, packs, staging>>
            /\ ~adopted => UNCHANGED <<commits, head, index>>
            /\ adopted => /\ commits' = local.commits
                          /\ head' = local.head
                          /\ index' = local.index]_vars

\* a push of a repository that has commits and objects was ended by a request
\* that raised
C23_Witness ==
    /\ last.op = "push" /\ last.net
    /\ commits # << >>
    /\ DOMAIN objects # {}


\* C24: no hash is at once a loose object and listed in a pack manifest, and no
\* hash is listed in the manifests of two packs
C24_OneTierPerHash ==
    /\ DOMAIN objects \cap PackedHashes(packs) = {}
    /\ \A i, j \in DOMAIN packs :
          i # j => packs[i].idx.objects \cap packs[j].idx.objects = {}


\* C25: in every state, also one that a gc killed at any of its steps leaves
\* behind, a pack whose manifest file exists has its payload completely
\* written, and a manifest that is written names that pack and lists exactly
\* the hashes of the payload, with their number as its object count
C25_ManifestOnlyOfWrittenPayload ==
    \A i \in DOMAIN packs :
       LET pack_data == decompress_data(packs[i].payload)
           idx == packs[i].idx
       IN /\ ("idx" \in torn \/ idx # NoIdx) =>
                /\ "pack" \notin torn
                /\ pack_data # Empty
          /\ idx # NoIdx =>
                /\ idx.pack_file = i
                /\ idx.objects = DOMAIN pack_data
                /\ idx.object_count = Cardinality(DOMAIN pack_data)

\* a gc was killed after it wrote a manifest
C25_Witness ==
    /\ last.op = "gc" /\ last.result = "killed"
    /\ \E i \in DOMAIN packs : packs[i].idx # NoIdx


\* C26: no command fails because the index, the commit log or the delta cache
\* cannot be parsed: a commit that finds the commit log unparseable goes on as
\* with an empty log and does not end in the parse error
C26_CorruptFileDoesNotFailCommand ==
    ~(last.op = "commit" /\ last.result = "JSONDecodeError")


\* the command of this step made no request and left the configuration, the
\* commit log, HEAD and the object store as they were
NoRequestNoChange ==
    /\ UNCHANGED <<config, commits, head, objects, packs, remote>>
    /\ last'.sent = << >> /\ last'.got = << >>
    /\ ~last'.net /\ ~last'.checked

\* C27: a push or pull with no origin configured reports NoOriginConfigured,
\* makes no request and changes no local state; a pull with an origin and no
\* remote id reports that no remote repository is configured, likewise with no
\* request and no change
C27_NoOriginFailsBeforeAnyRequest ==
    [][/\ ((Did("push") \/ Did("pull")) /\ ~config.origin_url) =>
            (last'.result = "NoOriginConfigured" /\ NoRequestNoChange)
       /\ (Did("pull") /\ config.origin_url /\ config.repo_id = None) =>
            (last'.result = "no_remote_repository" /\ NoRequestNoChange)]_vars

\* a push of a repository that has a commit to send and no origin
C27_Witness ==
    /\ last.op = "push" /\ last.result = "NoOriginConfigured"
    /\ commits # << >>
    /\ ~config.origin_url


\* size or mtime of the present path p differ from its index entry
StatDiffers(p) ==
    \/ Stat(p).size # LoadedIndex[p].size
    \/ Stat(p).mtime # LoadedIndex[p].mtime

CommitPaths(c) == {c.files[h].path : h \in DOMAIN c.files}

\* C29: after a commit that succeeded the index tracks exactly the paths of
\* that commit's file set, each with the hash it was committed under, and
\* nothing else; and when the index is absent the index that change detection
\* loads tracks the paths of the last commit of the log
C29_IndexIsLatestCommit ==
    [][/\ Ran("commit", "committed") =>
            LET c == commits'[Len(commits')]
            IN /\ DOMAIN index' = CommitPaths(c)
               /\ \A h \in DOMAIN c.files : index'[c.files[h].path].hash = h
       /\ (index = Empty /\ commits # << >>) =>
            DOMAIN LoadedIndex = CommitPaths(commits[Len(commits)])]_vars


\* C30: file content crosses the client/remote boundary unchanged: after a
\* pull, for every commit it brought and every file the remote stores for that
\* commit, the bytes this client holds under one of the keys the commit came
\* with are the bytes that were pushed
C30_PulledBytesAreThePushedBytes ==
    [][Ran("pull", "pulled") =>
         \A i \in DOMAIN remote.commits : \A j \in DOMAIN commits' :
            (remote.commits[i].id \in Range(last'.got)
               /\ commits'[j].id = remote.commits[i].id) =>
               \A k \in DOMAIN remote.commits[i].files :
                  \E h \in DOMAIN commits'[j].files :
                     load_object_compressed(objects', h) = remote.commits[i].files[k]]_vars


\* C31: a log shows the commits most recent first: given a limit k, the k most
\* recently appended commits of the log, or all of them when the log has no
\* more than k or no limit is given, in reverse append order
C31_LogShowsLastKNewestFirst ==
    [][Did("log") =>
         LET k == last'.limit
             n == Len(commits)
             m == IF k = None \/ k >= n THEN n ELSE k
         IN last'.got = [i \in 1 .. m |-> commits[n + 1 - i].id]]_vars


\* C32: an add of a path leaves that path's delta-cache entry with the hash
\* just added as current hash and, as base hash, the current hash the entry
\* held before (none if the path had no entry); the entries of the other paths
\* are as they were
C32_AddUpdatesDeltaCacheEntry ==
    [][Ran("add", "added") =>
         LET p == last'.path
         IN /\ DOMAIN delta_cache' = DOMAIN delta_cache \cup {p}
            /\ delta_cache'[p].current_hash = last'.hash
            /\ delta_cache'[p].base_hash =
                  (IF p \in DOMAIN delta_cache THEN delta_cache[p].current_hash
                   ELSE NoHash)
            /\ \A q \in DOMAIN delta_cache \ {p} : delta_cache'[q] = delta_cache[q]]_vars

\* a path was added a second time while another path has an entry: its base
\* hash is the hash of its first add
C32_Witness ==
    /\ last.op = "add" /\ last.result = "added"
    /\ delta_cache[last.path].base_hash # NoHash
    /\ DOMAIN delta_cache # {last.path}


\* C33: every loose object, whether an add or a pull stored it, is stored
\* under the ContentHash of its content
C33_ObjectsAreContentAddressed ==
    \A h \in DOMAIN objects : h = ContentHash(load_object_compressed(objects, h))


\* C34: no commit id is in the local commit log more than once
C34_LogIdsAreUnique ==
    \A i, j \in DOMAIN commits : commits[i].id = commits[j].id => i = j


\* C35: whenever the commit log is not empty and no invocation is under way,
\* HEAD is the id of the last commit of the log, the first commit has no
\* parent and every other commit's parent is the id of the commit before it
C35_LogIsParentChain ==
    (commits # << >> /\ \A p \in Procs : procs[p] = Idle) =>
       /\ head = commits[Len(commits)].id
       /\ commits[1].parent = None
       /\ \A i \in 2 .. Len(commits) : commits[i].parent = commits[i - 1].id


\* C36: no commit of the log has an empty file set
C36_NoCommitWithoutFiles ==
    \A i \in DOMAIN commits : DOMAIN commits[i].files # {}


\* C37: with two commit invocations interleaved, a commit that has reported
\* success is in the commit log when it reports and stays there
C37_NoSuccessfulCommitLost ==
    [][Ran("commit", "committed") => last'.got[1] \in Ids(commits')]_vars


\* C38: a staging record is removed only by a commit that succeeded, and after
\* such a commit the staging area is empty; add, a commit that failed, push,
\* pull and gc keep the record of every staged working path
StagedPaths(st) == {st[b].path : b \in DOMAIN st}

C38_StagingClearedOnlyByCommit ==
    [][/\ Ran("commit", "committed") => staging' = Empty
       /\ ~Ran("commit", "committed") =>
            /\ StagedPaths(staging) \subseteq StagedPaths(staging')
            /\ ~Did("add") => staging' = staging]_vars
====
